---------------------------- MODULE Spec2Model ----------------------------
(***************************************************************************)
(* Model of gempy/plot/visualization_2d_pro.py (class Plot2D).             *)
(*                                                                         *)
(* The state is the geological model the plotter reads (never written),    *)
(* the plotter object (color map, normalization, figure), the drawing      *)
(* surface the caller hands to the methods, and the record of the last     *)
(* call: its arguments and whether it returned or raised, and where.       *)
(*                                                                         *)
(* Encodings.  A Python optional is a sequence: <<>> is None, <<v>> is v.  *)
(* A section-name argument is <<>> (None), <<"str", s>> (the string s) or  *)
(* <<"int", s>> (a non-string value).  An index of a 3-D array is a record *)
(* [k, lo, hi]: k = "slice" is slice(lo, hi), k = "int" is the integer lo, *)
(* k = "newaxis" is None used as an index.  Values that are halves (0.5)   *)
(* are kept doubled.  An outcome is [exc, at, val]: exc = "none" and the   *)
(* returned value, or the exception type and the source line raising it.   *)
(***************************************************************************)
EXTENDS Integers, Sequences, FiniteSets, TLC

VARIABLES model, plotter, ax, last

vars == <<model, plotter, ax, last>>

-----------------------------------------------------------------------------
(* Bounds of the model *)

MaxRes == 2
MaxCoord == 1
MaxCell == 2
MaxN == 7
MaxPt == 3
MaxSurf == 2
MaxTick == 8
MaxLayers == 2

-----------------------------------------------------------------------------
(* Values *)

None == <<>>
Some(v) == <<v>>
Str(s) == <<"str", s>>
NonStr(s) == <<"int", s>>

Ok(v) == [exc |-> "none", at |-> 0, val |-> v]
Raise(e, line) == [exc |-> e, at |-> line, val |-> <<>>]

IntIdx(c) == [k |-> "int", lo |-> c, hi |-> c]
SliceIdx(lo, hi) == [k |-> "slice", lo |-> lo, hi |-> hi]
NewAxis == [k |-> "newaxis", lo |-> 0, hi |-> 0]

\* cell_number used as an array index: an integer, or None (numpy's newaxis)
CellIdx(cell_number) == IF cell_number = None THEN NewAxis ELSE IntIdx(cell_number[1])

\* extent[[i, j, k, l]] with the source's 0-based positions
Pick(extent, i, j, k, l) == <<extent[i + 1], extent[j + 1], extent[k + 1], extent[l + 1]>>

-----------------------------------------------------------------------------
(* Plot2D._slice *)

slice_x_extent_of_y(m, direction, cell_number) ==
    LET res == m.resolution
        _a == SliceIdx(0, res[1])
        _b == SliceIdx(0, res[2])
        _c == SliceIdx(0, res[3])
    IN  IF direction = "x"
          THEN Ok(<<CellIdx(cell_number), _b, _c, Pick(m.extent, 0, 1, 4, 5), "Y", "Z", "G_y", "G_z">>)
        ELSE IF direction = "y"
          THEN Ok(<<_a, CellIdx(cell_number), _c, Pick(m.extent, 0, 1, 4, 5), "X", "Z", "G_x", "G_z">>)
        ELSE IF direction = "z"
          THEN Ok(<<_a, _b, CellIdx(cell_number), Pick(m.extent, 0, 1, 2, 3), "X", "Y", "G_x", "G_y">>)
        ELSE Raise("AttributeError", 115)

slice_defaults_to_y(m, direction, cell_number) ==
    LET res == m.resolution
        _a == SliceIdx(0, res[1])
        _b == SliceIdx(0, res[2])
        _c == SliceIdx(0, res[3])
    IN  IF direction = "x"
          THEN Ok(<<CellIdx(cell_number), _b, _c, Pick(m.extent, 2, 3, 4, 5), "Y", "Z", "G_y", "G_z">>)
        ELSE IF direction = "z"
          THEN Ok(<<_a, _b, CellIdx(cell_number), Pick(m.extent, 0, 1, 2, 3), "X", "Y", "G_x", "G_y">>)
        ELSE Ok(<<_a, CellIdx(cell_number), _c, Pick(m.extent, 0, 1, 4, 5), "X", "Z", "G_x", "G_z">>)

Plot2D_slice(m, direction, cell_number) ==
    LET res == m.resolution
        _a == SliceIdx(0, res[1])
        _b == SliceIdx(0, res[2])
        _c == SliceIdx(0, res[3])
    IN  IF direction = "x"
          THEN Ok(<<CellIdx(cell_number), _b, _c, Pick(m.extent, 2, 3, 4, 5), "Y", "Z", "G_y", "G_z">>)
        ELSE IF direction = "y"
          THEN Ok(<<_a, CellIdx(cell_number), _c, Pick(m.extent, 0, 1, 4, 5), "X", "Z", "G_x", "G_z">>)
        ELSE IF direction = "z"
          THEN Ok(<<_a, _b, CellIdx(cell_number), Pick(m.extent, 0, 1, 2, 3), "X", "Y", "G_x", "G_y">>)
        ELSE Raise("AttributeError", 115)


-----------------------------------------------------------------------------
(* The geological model the plotter reads.  It is owned by collaborators    *)
(* (grid, sections, surfaces, solutions); the plotter never writes it.      *)

ISqrt(k) == CHOOSE r \in 0..k : r * r <= k /\ (r + 1) * (r + 1) > k

\* One row of the sections table: the end points of the line in plan view, its
\* length, its pixel resolution and its range [l0, l1) in the flattened buffers.
Section(name, start, stop, resolution, l0) ==
    [name |-> name, start |-> start, stop |-> stop,
     dist |-> ISqrt((stop[1] - start[1]) * (stop[1] - start[1])
                    + (stop[2] - start[2]) * (stop[2] - start[2])),
     resolution |-> resolution, l0 |-> l0, l1 |-> l0 + resolution[1] * resolution[2]]

\* Three sections of integer length: along X, along Y and oblique (3-4-5).
FlowSections ==
    << Section("s_x", <<0, 1>>, <<4, 1>>, <<2, 2>>, 0),
       Section("s_y", <<2, 0>>, <<2, 3>>, <<3, 2>>, 4),
       Section("s_o", <<0, 0>>, <<3, 4>>, <<2, 3>>, 10) >>

SurveyPoints ==
    << [id |-> 1, X |-> 1, Y |-> 2, Z |-> 5], [id |-> 2, X |-> 3, Y |-> 1, Z |-> 7] >>

SurveyOrientations ==
    << [id |-> 1, X |-> 2, Y |-> 2, Z |-> 6, G_x |-> 0, G_y |-> 0, G_z |-> 1] >>

Prod(res) == res[1] * res[2] * res[3]

\* A model with every output solved: lith_block and each scalar field hold one
\* value per grid cell; an output that is not solved is empty or absent.
BaseModel ==
    [resolution |-> <<2, 3, 4>>,
     extent |-> <<0, 10, 0, 20, 0, 30>>,
     sections |-> FlowSections,
     colors |-> <<"#015482", "#9f0052">>,
     lith_block |-> 24,
     scalar_field_matrix |-> <<24, 24>>,
     sections_solved |-> TRUE,
     geological_map |-> TRUE,
     topography |-> <<3, 2>>,
     points |-> SurveyPoints,
     orientations |-> SurveyOrientations]

-----------------------------------------------------------------------------
(* Plot2D._make_section_xylabels *)

\* np.where(names == section_name)[0]: the positions of the name in the table
Where(m, section_name) ==
    {j \in 1..Len(m.sections) : section_name = Str(m.sections[j].name)}

\* n evenly spaced points from p1 to p2, n of them in each coordinate.  The
\* coordinates are exact fractions over the common denominator den.
calculate_line_coordinates_2points(p1, p2, resx, resy) ==
    LET den == IF resx > 1 THEN resx - 1 ELSE 1
    IN  [den |-> den,
         pts |-> [i \in 1..resx |->
                    <<p1[1] * den + (i - 1) * (p2[1] - p1[1]),
                      p1[2] * den + (i - 1) * (p2[2] - p1[2])>>]]

\* ndarray.astype(int) of the fraction num/den: truncation towards zero
AsInt(num, den) == IF num >= 0 THEN num \div den ELSE -((-num) \div den)

Unique(xy, col) == {xy.pts[i][col] : i \in 1..Len(xy.pts)}

Column(xy, col) == [i \in 1..Len(xy.pts) |-> AsInt(xy.pts[i][col], xy.den)]

ClampTicks_negative_kept(n) == IF n > 5 THEN 3 ELSE n

ClampTicks(n) == IF n > 5 THEN 3 ELSE IF n < 0 THEN 3 ELSE n

\* [out, asked]: the outcome, and the point counts asked of the geometry
\* collaborator (<<>> when the call does not get that far)
Plot2D_make_section_xylabels(m, section_name, n0) ==
    LET n == ClampTicks(n0)
        found == Where(m, section_name)
    IN  IF found = {}
          THEN [out |-> Raise("IndexError", 80), asked |-> <<>>]
          ELSE
            LET j == CHOOSE k \in found : \A l \in found : k <= l
                p1 == m.sections[j].start
                p2 == m.sections[j].stop
                xy == calculate_line_coordinates_2points(p1, p2, n, n)
            IN  [asked |-> <<n>>,
                 out |->
                   IF Cardinality(Unique(xy, 1)) = 1
                     THEN Ok(<<Column(xy, 2), "Y">>)
                   ELSE IF Cardinality(Unique(xy, 2)) = 1
                     THEN Ok(<<Column(xy, 1), "X">>)
                   ELSE Ok(<<[i \in 1..Len(xy.pts) |-> <<Column(xy, 1)[i], Column(xy, 2)[i]>>],
                             "X,Y">>)]

-----------------------------------------------------------------------------
(* Plot2D.__init__ *)

\* A color map is [listed, n]: a listed color map of n colors has the attribute
\* `colors`; any other color map (listed = FALSE) has not.  A normalization is
\* [vmin2, vmax2], twice its bounds.
Listed(n) == [listed |-> TRUE, n |-> n]
Segmented == [listed |-> FALSE, n |-> 256]
Normalize(vmin2, vmax2) == [vmin2 |-> vmin2, vmax2 |-> vmax2]

\* [out, self]: the outcome and the object built (cmap, norm: an optional each)
Plot2D_init_norm_from_surfaces(m, cmap, norm) ==
    LET c == IF cmap = None THEN Listed(Len(m.colors)) ELSE cmap[1]
    IN  [out |-> Ok(<<>>),
         self |-> [cmap |-> c,
                   norm |-> IF norm = None THEN Normalize(1, 2 * Len(m.colors) + 1) ELSE norm[1],
                   fig |-> FALSE, scaled |-> FALSE]]

Plot2D_init(m, cmap, norm) ==
    LET c == IF cmap = None THEN Listed(Len(m.colors)) ELSE cmap[1]
    IN  IF norm = None /\ ~c.listed
          THEN [out |-> Raise("AttributeError", 60), self |-> <<>>]
          ELSE [out |-> Ok(<<>>),
                self |-> [cmap |-> c,
                          norm |-> IF norm = None THEN Normalize(1, 2 * c.n + 1) ELSE norm[1],
                          fig |-> FALSE, scaled |-> FALSE]]

DefaultPlotter(m) == Plot2D_init(m, None, None).self

-----------------------------------------------------------------------------
(* The drawing surface: a matplotlib Axes owned by the caller *)

\* A new Axes: no title, no labels, limits (0, 1), no layer
FreshAx ==
    [title |-> "", xlabel |-> "", ylabel |-> "",
     xlim |-> <<0, 1>>, ylim |-> <<0, 1>>,
     xticks |-> <<>>, layers |-> <<>>]

\* The record of a call: its arguments (n: the tick count or the scalar field
\* number; cmap, norm: the constructor's), the counts asked of the geometry
\* collaborator, the branch of the selector logic the call took, the drawing
\* calls it made on the surface, and the outcome
Call(op, section_name, cell_number, direction, block, n, out) ==
    [op |-> op, section_name |-> section_name, cell_number |-> cell_number,
     direction |-> direction, block |-> block, n |-> n, asked |-> <<>>,
     branch |-> "", drawn |-> <<>>, cmap |-> None, norm |-> None, out |-> out]

NoCall == Call("__init__", None, None, "", None, 0, Ok(<<>>))

-----------------------------------------------------------------------------
(* Slicing a grid: the inputs of _slice and the calls *)

Directions == {"x", "y", "z", "X", "w", ""}

Cells == {None, Some(25)} \cup {Some(c) : c \in -1..MaxCell}

Resolutions == (1..MaxRes) \X (1..MaxRes) \X (1..MaxRes)

\* extents (xmin, xmax, ymin, ymax, zmin, zmax) whose six bounds all differ,
\* each axis placed at an offset of its own
Extents == {<<ox, ox + 10, 20 + oy, 30 + oy, 40 + oz, 50 + oz>> :
               ox \in 0..MaxCoord, oy \in 0..MaxCoord, oz \in 0..MaxCoord}

InitSlice ==
    /\ model \in {[BaseModel EXCEPT !.resolution = r, !.extent = e,
                                    !.lith_block = Prod(r),
                                    !.scalar_field_matrix = <<Prod(r), Prod(r)>>] :
                    r \in Resolutions, e \in Extents}
    /\ plotter = DefaultPlotter(model)
    /\ ax = FreshAx
    /\ last = NoCall

Call_slice(direction, cell_number) ==
    /\ last' = Call("_slice", None, cell_number, direction, None, 0,
                    Plot2D_slice(model, direction, cell_number))
    /\ UNCHANGED <<model, plotter, ax>>

NextSlice == \E d \in Directions, c \in Cells : Call_slice(d, c)

SpecSlice == InitSlice /\ [][NextSlice]_vars

\* The position on the grid's axes of a direction letter
AxisNo(direction) == IF direction = "x" THEN 1 ELSE IF direction = "y" THEN 2 ELSE 3

AxisName(k) == <<"X", "Y", "Z">>[k]

\* The 6-value extent without the two bounds of axis k, the others in order
WithoutAxis(extent, k) ==
    LET keep == SelectSeq(<<1, 2, 3, 4, 5, 6>>, LAMBDA i : i # 2 * k - 1 /\ i # 2 * k)
    IN  [i \in 1..4 |-> extent[keep[i]]]

SliceCalled(axes) ==
    /\ last.op = "_slice"
    /\ last.direction \in axes
    /\ last.cell_number # None

\* C1: for every grid, axis in {x, y, z} and cell index c, _slice returns the
\* single index c on the sliced axis, the full ranges 0..resolution-1 on the
\* other two, the names of the two in-plane axes in ascending order, and the
\* grid's extent without the two bounds of the sliced axis.
C1_SliceRecipe ==
    SliceCalled({"x", "y", "z"}) =>
        LET k == AxisNo(last.direction)
            v == last.out.val
            others == SelectSeq(<<1, 2, 3>>, LAMBDA i : i # k)
        IN  /\ last.out.exc = "none"
            /\ v[k] = IntIdx(last.cell_number[1])
            /\ \A i \in {1, 2, 3} \ {k} : v[i] = SliceIdx(0, model.resolution[i])
            /\ <<v[5], v[6]>> = <<AxisName(others[1]), AxisName(others[2])>>
            /\ v[4] = WithoutAxis(model.extent, k)

\* a slice along x of a grid whose y and x bounds differ
C1_Witness ==
    /\ SliceCalled({"x"})
    /\ last.out.exc = "none"
    /\ model.extent[1] # model.extent[3]
    /\ last.cell_number = Some(1)

\* C5: _slice raises AttributeError for every direction that is not x, y or z,
\* whatever the cell index, and returns a recipe for x, y and z whatever the
\* cell index (also one outside the grid's resolution).
C5_InvalidAxis ==
    last.op = "_slice" =>
        /\ last.direction \notin {"x", "y", "z"} =>
              last.out.exc = "AttributeError" /\ last.out.at = 115
        /\ last.direction \in {"x", "y", "z"} =>
              last.out.exc = "none" /\ Len(last.out.val) = 8

\* an unknown direction with a cell index outside the grid
C5_Witness ==
    /\ last.op = "_slice"
    /\ last.direction = "w"
    /\ last.cell_number = Some(25)
    /\ last.out.exc = "AttributeError"

-----------------------------------------------------------------------------
(* Labelling a section: the inputs of _make_section_xylabels and the calls *)

Points2D == (0..MaxPt) \X (0..MaxPt)

TickArgs == -2..MaxN

InitLabels ==
    /\ model \in {[BaseModel EXCEPT !.sections = <<Section("s", p1, p2, <<2, 2>>, 0)>>] :
                    p1 \in Points2D, p2 \in Points2D}
    /\ plotter = DefaultPlotter(model)
    /\ ax = FreshAx
    /\ last = NoCall

Call_make_section_xylabels(section_name, n) ==
    LET r == Plot2D_make_section_xylabels(model, section_name, n)
    IN  /\ last' = [Call("_make_section_xylabels", section_name, None, "", None, n, r.out)
                      EXCEPT !.asked = r.asked]
        /\ UNCHANGED <<model, plotter, ax>>

NextLabels ==
    \E s \in {Str("s"), Str("nope"), NonStr("7")}, n \in TickArgs :
        Call_make_section_xylabels(s, n)

SpecLabels == InitLabels /\ [][NextLabels]_vars

\* the labelling reached the request to the geometry collaborator
LabelsAsked == last.op = "_make_section_xylabels" /\ last.asked # <<>>

\* C7: the number of points asked of the geometry collaborator is 3 for every
\* requested count n < 0 or n > 5 and n itself for 0 <= n <= 5, so it always
\* lies in 0..5.
C7_ClampedCount ==
    LabelsAsked =>
        /\ last.asked[1] = (IF last.n < 0 \/ last.n > 5 THEN 3 ELSE last.n)
        /\ last.asked[1] \in 0..5

\* a negative requested count
C7_Witness == LabelsAsked /\ last.n < 0 /\ last.asked = <<3>>

\* the sampled points of the section, as the collaborator returns them
Sampled == LET s == model.sections[1]
           IN  calculate_line_coordinates_2points(s.start, s.stop, last.asked[1], last.asked[1])

\* C6: for a section whose end points share Y (and differ in X) the labels are
\* the integer X values of the sampled points and the axis name is "X", and for
\* end points that share X the integer Y values and "Y", for every count of
\* sampled points up to 5 (stated for the counts that sample a point at all:
\* with none there is no label, and what the collaborator does is its own).
C6_AlignedLabels ==
    (LabelsAsked /\ last.asked[1] >= 1
                 /\ model.sections[1].start # model.sections[1].stop) =>
        LET s == model.sections[1]
        IN  /\ s.start[2] = s.stop[2] => last.out.val = <<Column(Sampled, 1), "X">>
            /\ s.start[1] = s.stop[1] => last.out.val = <<Column(Sampled, 2), "Y">>


-----------------------------------------------------------------------------
(* Plot2D.create_figure *)

\* plt.subplots(0, 0) returns or raises ValueError with the version of the
\* plotting library: made says which.  The text sizes are set before it.
Plot2D_create_figure(self, made) ==
    IF made
      THEN [out |-> Ok("fig"), self |-> [self EXCEPT !.scaled = TRUE, !.fig = TRUE]]
      ELSE [out |-> Raise("ValueError", 121), self |-> [self EXCEPT !.scaled = TRUE]]

-----------------------------------------------------------------------------
(* Plot2D.set_section *)

\* df.loc[section_name, ...]: the row of the sections table, by name
Row(m, section_name) == m.sections[CHOOSE j \in Where(m, section_name) : TRUE]

\* lines 169-177: an inverted vertical extent calls ax.gca(), which an Axes
\* has not; otherwise the limits are set and the surface returned.  (The
\* aspect of line 171 is computed on numpy floats, printed and dropped.)
SetLimits(a, extent_val, branch) ==
    IF extent_val[4] < extent_val[3]
      THEN [out |-> Raise("AttributeError", 170), ax |-> a, branch |-> branch]
      ELSE [out |-> Ok("ax"), branch |-> branch,
            ax |-> [a EXCEPT !.xlim = <<extent_val[1], extent_val[2]>>,
                             !.ylim = <<extent_val[3], extent_val[4]>>]]

\* lines 141, 142, 162, 166: the branch the two selectors choose
set_section_branch_rejects_both(section_name, cell_number) ==
    IF section_name # None /\ cell_number # None THEN "none"
    ELSE IF section_name # None
      THEN IF section_name = Str("topography") THEN "topography" ELSE "section"
    ELSE IF cell_number # None THEN "cell"
    ELSE "none"

set_section_branch(section_name, cell_number) ==
    IF section_name # None
      THEN IF section_name = Str("topography") THEN "topography" ELSE "section"
    ELSE IF cell_number # None THEN "cell"
    ELSE "none"

\* [out, ax, branch]: the outcome, the surface as the call leaves it, and the
\* branch taken.  nticks is len(ax.get_xticklabels()), which the plotting
\* library decides.
Plot2D_set_section(m, self, ax0, section_name, cell_number, direction, ax_given, nticks) ==
    IF ~ax_given /\ ~self.fig
      THEN [out |-> Raise("AttributeError", 139), ax |-> ax0, branch |-> ""]
      ELSE
        LET a == IF ax_given THEN ax0 ELSE FreshAx
            branch == set_section_branch(section_name, cell_number)
        IN  CASE branch = "topography" ->
                   [out |-> Raise("UnboundLocalError", 169), branch |-> branch,
                    ax |-> [a EXCEPT !.title = "Geological map",
                                     !.xlabel = "X", !.ylabel = "Y"]]
              [] branch = "section" ->
                   IF Where(m, section_name) = {}
                     THEN [out |-> Raise("KeyError", 149), ax |-> a, branch |-> branch]
                     ELSE
                       LET dist == Row(m, section_name).dist
                           extent_val == <<0, dist, m.extent[5], m.extent[6]>>
                           r == Plot2D_make_section_xylabels(m, section_name, nticks - 2)
                       IN  IF r.out.exc # "none"
                             THEN [out |-> r.out, ax |-> a, branch |-> branch]
                             ELSE SetLimits(
                                    [a EXCEPT !.xticks = [lo |-> 0, hi |-> dist,
                                                          labels |-> r.out.val[1]],
                                              !.title = section_name[2],
                                              !.xlabel = r.out.val[2],
                                              !.ylabel = "Z"],
                                    extent_val, branch)
              [] branch = "cell" ->
                   LET r == Plot2D_slice(m, direction, cell_number)
                   IN  IF r.exc # "none"
                         THEN [out |-> r, ax |-> a, branch |-> branch]
                         ELSE SetLimits([a EXCEPT !.xlabel = r.val[5], !.ylabel = r.val[6]],
                                        r.val[4], branch)
              [] OTHER -> [out |-> Raise("AttributeError", 167), ax |-> a, branch |-> "none"]

-----------------------------------------------------------------------------
(* Configuring a surface: the models, the inputs and the calls *)

\* grids whose vertical extent is upright or inverted, with the lithology
\* block solved or not
SectionModels ==
    {[BaseModel EXCEPT !.extent = e, !.lith_block = b, !.scalar_field_matrix = f] :
        e \in {<<0, 10, 0, 20, 0, 30>>, <<0, 10, 0, 20, 30, 0>>},
        b \in {0, 24}, f \in {<<24, 24>>}}

SectionArgs == {Str("topography"), Str("s_x"), Str("s_o"), Str("nope"), NonStr("7")}

\* a cell of the grid, a cell outside it, or none
FlowCells == {None, Some(1), Some(25)}

FlowDirections == {"x", "y", "z", "w"}

TickCounts == {0, 3, 6, MaxTick}

InitSection ==
    /\ model \in SectionModels
    /\ plotter = DefaultPlotter(model)
    /\ ax = FreshAx
    /\ last = NoCall

Call_create_figure(made) ==
    LET r == Plot2D_create_figure(plotter, made)
    IN  /\ plotter' = r.self
        /\ last' = Call("create_figure", None, None, "", None, 0, r.out)
        /\ UNCHANGED <<model, ax>>

Call_set_section(section_name, cell_number, direction, ax_given, nticks) ==
    LET r == Plot2D_set_section(model, plotter, ax, section_name, cell_number,
                                direction, ax_given, nticks)
    IN  /\ ax' = r.ax
        /\ last' = [Call("set_section", section_name, cell_number, direction, None, 0, r.out)
                      EXCEPT !.branch = r.branch]
        /\ UNCHANGED <<model, plotter>>

\* a call with a section name (the direction is left at its default), or one
\* without (the surface is new or has the tick labels of a new one)
NextSection ==
    \/ \E made \in BOOLEAN : Call_create_figure(made)
    \/ \E s \in SectionArgs, c \in {None, Some(1)}, g \in BOOLEAN, t \in TickCounts :
          Call_set_section(s, c, "y", g, t)
    \/ \E c \in FlowCells, d \in FlowDirections, g \in BOOLEAN :
          Call_set_section(None, c, d, g, 6)

SpecSection == InitSection /\ [][NextSection]_vars


\* set_section ran on a surface (one supplied, or one of the figure)
SectionCalled == last.op = "set_section" /\ last.out.at # 139

\* C2 as claimed: set_section fails with the selector AttributeError whenever
\* both of section_name and cell_number are absent and whenever both are
\* supplied, and selects a branch only when exactly one is supplied.
C2_ExactlyOneSelector ==
    SectionCalled =>
        LET both == last.section_name # None /\ last.cell_number # None
            neither == last.section_name = None /\ last.cell_number = None
        IN  /\ (both \/ neither) => last.out.exc = "AttributeError" /\ last.branch = "none"
            /\ last.branch \in {"topography", "section", "cell"} => ~both /\ ~neither

\* C2 as amended: set_section raises the selector AttributeError (line 167)
\* exactly when section_name and cell_number are both absent; with a
\* section_name it takes the section branch whether or not a cell_number is
\* supplied too, and with a cell_number alone the cell branch.
C2_SectionNameFirst ==
    SectionCalled =>
        /\ last.out.at = 167 <=> (last.section_name = None /\ last.cell_number = None)
        /\ last.out.at = 167 => last.out.exc = "AttributeError" /\ last.branch = "none"
        /\ last.section_name # None => last.branch \in {"topography", "section"}
        /\ (last.section_name = None /\ last.cell_number # None) => last.branch = "cell"

\* both selectors supplied, and the named section configured
C2_Witness ==
    /\ SectionCalled
    /\ last.section_name = Str("s_x")
    /\ last.cell_number = Some(1)
    /\ last.out.exc = "none"
    /\ ax.title = "s_x"

\* C3: set_section with section_name "topography", no cell_number and a
\* surface returns the surface with title "Geological map" and labels "X" and
\* "Y" without raising, whatever the model's state.
C3_TopographyConfigures ==
    (SectionCalled /\ last.section_name = Str("topography") /\ last.cell_number = None) =>
        /\ last.out.exc = "none"
        /\ ax.title = "Geological map"
        /\ ax.xlabel = "X"
        /\ ax.ylabel = "Y"


-----------------------------------------------------------------------------
(* Arrays: the shape numpy gives plot_block[_a, _b, _c] *)

Min(a, b) == IF a < b THEN a ELSE b

Reverse(q) == [i \in 1..Len(q) |-> q[Len(q) + 1 - i]]

\* Indexing an array of shape `shape` with the indices idx from position i on,
\* the next array axis being axis.  An integer takes one axis away (IndexError
\* outside -size..size-1), a slice keeps the part of an axis inside it, None
\* adds an axis of length 1 and takes none; the axes left over are kept.
RECURSIVE IndexShape(_, _, _, _)
IndexShape(shape, idx, i, axis) ==
    IF i > Len(idx)
      THEN [ok |-> TRUE, shape |-> SubSeq(shape, axis, Len(shape))]
    ELSE IF idx[i].k = "newaxis"
      THEN LET rest == IndexShape(shape, idx, i + 1, axis)
           IN  [ok |-> rest.ok, shape |-> <<1>> \o rest.shape]
    ELSE IF idx[i].k = "int"
      THEN IF idx[i].lo >= shape[axis] \/ idx[i].lo < -shape[axis]
             THEN [ok |-> FALSE, shape |-> <<>>]
             ELSE IndexShape(shape, idx, i + 1, axis + 1)
    ELSE LET rest == IndexShape(shape, idx, i + 1, axis + 1)
         IN  [ok |-> rest.ok,
              shape |-> <<Min(idx[i].hi, shape[axis]) - idx[i].lo>> \o rest.shape]

\* lines 215-222 and 241-248: the slice recipe, the block reshaped to the
\* grid's resolution, indexed and transposed.  size is the number of values
\* of the block (<<>>: there is no block to read); the lines are where the
\* recipe, the block, the reshape and the indexing are.
SliceBlock(m, direction, cell_number, size, src, lines) ==
    LET r == Plot2D_slice(m, direction, cell_number)
    IN  IF r.exc # "none" THEN [out |-> r, image |-> <<>>]
        ELSE IF size = <<>>
          THEN [out |-> Raise("IndexError", lines[2]), image |-> <<>>]
        ELSE IF size[1] # Prod(m.resolution)
          THEN [out |-> Raise("ValueError", lines[3]), image |-> <<>>]
        ELSE LET ix == IndexShape(m.resolution, <<r.val[1], r.val[2], r.val[3]>>, 1, 1)
             IN  IF ~ix.ok
                   THEN [out |-> Raise("IndexError", lines[4]), image |-> <<>>]
                   ELSE [out |-> Ok(<<>>),
                         image |-> [src |-> src, shape |-> Reverse(ix.shape)]]

\* sections.get_section_args(section_name): the range [l0, l1) of the section
\* in the flattened buffers; an unknown name is a lookup error (IndexError or
\* KeyError) there or in the df.loc of the next line.
get_section_args(m, section_name, line) ==
    IF Where(m, section_name) = {}
      THEN Raise("LookupError", line)
      ELSE Ok(<<Row(m, section_name).l0, Row(m, section_name).l1>>)

\* the extent of a drawing: [*ax.get_xlim(), *ax.get_ylim()]
AxExtent(a) == a.xlim \o a.ylim

Drawn(a, layer) == [a EXCEPT !.layers = Append(@, layer.kind)]

\* Axes.imshow takes an image of shape (M, N), (M, N, 3) or (M, N, 4) and
\* raises TypeError for any other
ImshowTakes(shape) ==
    \/ Len(shape) = 2
    \/ Len(shape) = 3 /\ shape[3] \in {3, 4}

\* Axes.contour takes a 2-D array of at least 2 x 2 values and raises
\* TypeError for any other
ContourTakes(shape) == Len(shape) = 2 /\ shape[1] >= 2 /\ shape[2] >= 2

-----------------------------------------------------------------------------
(* Plot2D.plot_lith *)

\* lines 199, 200, 214, 223: the branch the selectors choose
plot_lith_branch_default_cell(section_name, cell_number, block) ==
    IF section_name # None
      THEN IF section_name = Str("topography") THEN "topography" ELSE "section"
    ELSE "cell"

plot_lith_branch(section_name, cell_number, block) ==
    IF section_name # None
      THEN IF section_name = Str("topography") THEN "topography" ELSE "section"
    ELSE IF cell_number # None \/ block # None THEN "cell"
    ELSE "none"

\* lines 199-224: the image to draw, or the failure
plot_lith_image(m, section_name, cell_number, direction, block) ==
    LET branch == plot_lith_branch(section_name, cell_number, block)
    IN  CASE branch = "topography" ->
               IF m.geological_map
                 THEN [out |-> Ok(<<>>),
                       image |-> [src |-> "geological_map", shape |-> m.topography]]
                 ELSE [out |-> Raise("AttributeError", 205), image |-> <<>>]
          [] branch = "section" ->
               IF section_name[1] # "str"
                 THEN [out |-> Raise("AssertionError", 207), image |-> <<>>]
               ELSE IF ~m.sections_solved
                 THEN [out |-> Raise("AssertionError", 208), image |-> <<>>]
               ELSE LET r == get_section_args(m, section_name, 210)
                    IN  IF r.exc # "none" THEN [out |-> r, image |-> <<>>]
                        ELSE [out |-> Ok(<<>>),
                              image |-> [src |-> "sections",
                                         shape |-> Reverse(Row(m, section_name).resolution)]]
          [] branch = "cell" ->
               SliceBlock(m, direction, cell_number,
                          IF block = None THEN Some(m.lith_block) ELSE block,
                          IF block = None THEN "lith_block" ELSE "block",
                          <<215, 217, 221, 222>>)
          [] OTHER -> [out |-> Raise("AttributeError", 224), image |-> <<>>]

\* [out, ax, branch, drawn]: drawn is the imshow call, if the call gets to it;
\* the surface holds the layer if imshow takes the image
Plot2D_plot_lith(m, self, ax0, section_name, cell_number, direction, block) ==
    LET extent_val == AxExtent(ax0)
        branch == plot_lith_branch(section_name, cell_number, block)
        r == plot_lith_image(m, section_name, cell_number, direction, block)
    IN  IF r.out.exc # "none"
          THEN [out |-> r.out, ax |-> ax0, branch |-> branch, drawn |-> <<>>]
          ELSE LET layer == [kind |-> "image", src |-> r.image.src, shape |-> r.image.shape,
                             extent |-> extent_val, cmap |-> Some(self.cmap),
                             norm |-> Some(self.norm), zorder |-> -100]
               IN  IF ImshowTakes(layer.shape)
                     THEN [out |-> Ok("ax"), ax |-> Drawn(ax0, layer), branch |-> branch,
                           drawn |-> <<layer>>]
                     ELSE [out |-> Raise("TypeError", 226), ax |-> ax0, branch |-> branch,
                           drawn |-> <<layer>>]

-----------------------------------------------------------------------------
(* Plot2D.plot_scalar_field *)

\* lines 235, 240, 249: the branch the selectors choose
plot_scalar_field_branch_ignores_block(section_name, cell_number, block) ==
    IF section_name # None THEN "section"
    ELSE IF cell_number # None THEN "cell"
    ELSE "none"

plot_scalar_field_branch(section_name, cell_number, block) ==
    IF section_name # None THEN "section"
    ELSE IF cell_number # None \/ block # None THEN "cell"
    ELSE "none"

\* sequence[sn] with the source's 0-based sn, <<>> when there is none
At0(q, sn) == IF sn >= 0 /\ sn < Len(q) THEN Some(q[sn + 1]) ELSE None

\* lines 235-250: the image to contour, or the failure.  The per-section
\* scalar fields are absent (None) until sections are solved, and are then as
\* many as the scalar fields of the grid.
plot_scalar_field_image(m, section_name, cell_number, sn, direction, block) ==
    LET branch == plot_scalar_field_branch(section_name, cell_number, block)
    IN  CASE branch = "section" ->
               LET r == get_section_args(m, section_name, 236)
               IN  IF r.exc # "none" THEN [out |-> r, image |-> <<>>]
                   ELSE IF ~m.sections_solved
                     THEN [out |-> Raise("TypeError", 238), image |-> <<>>]
                   ELSE IF At0(m.scalar_field_matrix, sn) = None
                     THEN [out |-> Raise("IndexError", 238), image |-> <<>>]
                   ELSE [out |-> Ok(<<>>),
                         image |-> [src |-> "sections_scalfield",
                                    shape |-> Reverse(Row(m, section_name).resolution)]]
          [] branch = "cell" ->
               SliceBlock(m, direction, cell_number,
                          IF block = None THEN At0(m.scalar_field_matrix, sn) ELSE block,
                          IF block = None THEN "scalar_field_matrix" ELSE "block",
                          <<241, 243, 247, 248>>)
          [] OTHER -> [out |-> Raise("AttributeError", 250), image |-> <<>>]

\* [out, ax, branch, drawn]: drawn is the contour call, if the call gets to
\* it; the surface holds the layer if contour takes the image
Plot2D_plot_scalar_field(m, self, ax0, section_name, cell_number, sn, direction, block) ==
    LET extent_val == AxExtent(ax0)
        branch == plot_scalar_field_branch(section_name, cell_number, block)
        r == plot_scalar_field_image(m, section_name, cell_number, sn, direction, block)
    IN  IF r.out.exc # "none"
          THEN [out |-> r.out, ax |-> ax0, branch |-> branch, drawn |-> <<>>]
          ELSE LET layer == [kind |-> "contour", src |-> r.image.src, shape |-> r.image.shape,
                             extent |-> extent_val, cmap |-> Some(Segmented),
                             norm |-> None, zorder |-> 8]
               IN  IF ContourTakes(layer.shape)
                     THEN [out |-> Ok("None"), ax |-> Drawn(ax0, layer), branch |-> branch,
                           drawn |-> <<layer>>]
                     ELSE [out |-> Raise("TypeError", 252), ax |-> ax0, branch |-> branch,
                           drawn |-> <<layer>>]


-----------------------------------------------------------------------------
(* Plot2D.plot_data *)

RECURSIVE Sum(_)
Sum(q) == IF q = <<>> THEN 0 ELSE q[1] + Sum(Tail(q))

\* An X coordinate is ["raw", x, 1], the number x of the table, or
\* ["norm", a, b], the square root of a / b.

\* lines 261-265: the component along the line of the point p, times dist^2:
\* A_rotate . (p - shift) is (stop - shift) times this over dist^2
Along(row, p) ==
    (row.stop[1] - row.start[1]) * (p.X - row.start[1])
    + (row.stop[2] - row.start[2]) * (p.Y - row.start[2])

\* lines 267, 269: np.linalg.norm(., axis=1) of the projected rows
Projected(row, table) ==
    LET dx == row.stop[1] - row.start[1]
        dy == row.stop[2] - row.start[2]
    IN  [i \in 1..Len(table) |->
           [table[i] EXCEPT !.X = [t |-> "norm",
                                   a |-> (dx * dx + dy * dy) * Along(row, table[i]) * Along(row, table[i]),
                                   b |-> row.dist * row.dist * row.dist * row.dist]]]

\* lines 256, 257: the copies of the tables, X as read
Copied(table) == [i \in 1..Len(table) |-> [table[i] EXCEPT !.X = [t |-> "raw", a |-> @, b |-> 1]]]

\* line 278: np.linalg.norm(cartesian_point, axis=0), the two squares over b
ColumnNorms(row, table) ==
    LET dx == row.stop[1] - row.start[1]
        dy == row.stop[2] - row.start[2]
        s2 == Sum([i \in 1..Len(table) |-> Along(row, table[i]) * Along(row, table[i])])
    IN  [t |-> "norm", a |-> <<dx * dx * s2, dy * dy * s2>>,
         b |-> row.dist * row.dist * row.dist * row.dist]

\* [out, ax, branch, drawn]: drawn is the scatter and the quiver calls
Plot2D_plot_data(m, self, ax0, section_name, cell_number, direction) ==
    IF section_name # None /\ Where(m, section_name) = {}
      THEN [out |-> Raise("KeyError", 261), ax |-> ax0, branch |-> "section", drawn |-> <<>>]
      ELSE
        LET points == IF section_name # None
                        THEN Projected(Row(m, section_name), m.points)
                        ELSE Copied(m.points)
            orientations == IF section_name # None
                              THEN Projected(Row(m, section_name), m.orientations)
                              ELSE Copied(m.orientations)
            scatter == [kind |-> "scatter",
                        x |-> [i \in 1..Len(points) |-> points[i].X],
                        y |-> [i \in 1..Len(points) |-> points[i].Z],
                        hue |-> [i \in 1..Len(points) |-> points[i].id]]
            quiver == [kind |-> "quiver",
                       x |-> [i \in 1..Len(orientations) |-> orientations[i].X],
                       y |-> [i \in 1..Len(orientations) |-> orientations[i].Y],
                       u |-> [i \in 1..Len(orientations) |-> orientations[i].G_x],
                       v |-> [i \in 1..Len(orientations) |-> orientations[i].G_z]]
            a == Drawn(Drawn(ax0, scatter), quiver)
        IN  IF section_name = None
              THEN [out |-> Raise("UnboundLocalError", 278), ax |-> a, branch |-> "none",
                    drawn |-> <<scatter, quiver>>]
              ELSE [out |-> Ok(ColumnNorms(Row(m, section_name), m.points)), ax |-> a,
                    branch |-> "section", drawn |-> <<scatter, quiver>>]

-----------------------------------------------------------------------------
(* Painting a configured surface: the models, the inputs and the calls *)

\* a grid of 2 x 3 x 4 cells or one a single cell thick (6 x 1 x 4), the
\* lithology block and the scalar fields solved or not, the sections solved
\* or not, the geological map computed or not
PaintModels ==
    {[BaseModel EXCEPT !.resolution = res,
                       !.lith_block = IF solved THEN 24 ELSE 0,
                       !.scalar_field_matrix = IF solved THEN <<24, 24>> ELSE <<>>,
                       !.sections_solved = sec,
                       !.geological_map = map] :
        res \in {<<2, 3, 4>>, <<6, 1, 4>>},
        solved \in BOOLEAN, sec \in BOOLEAN, map \in BOOLEAN}

\* a block of the grid's size (24 values), one of another size, or none
Blocks == {None, Some(24), Some(5)}

\* a scalar field of the model, or one more than it has
FieldNumbers == {0, 2}

\* the surface set_section leaves for a slice of the grid
SlicedAx(m) == Plot2D_set_section(m, DefaultPlotter(m), FreshAx, None, Some(1), "y", TRUE, 6).ax

InitPaint ==
    /\ model \in PaintModels
    /\ plotter = DefaultPlotter(model)
    /\ ax = SlicedAx(model)
    /\ last = NoCall

Call_plot_lith(section_name, cell_number, direction, block) ==
    LET r == Plot2D_plot_lith(model, plotter, ax, section_name, cell_number, direction, block)
    IN  /\ Len(ax.layers) < MaxLayers
        /\ ax' = r.ax
        /\ last' = [Call("plot_lith", section_name, cell_number, direction, block, 0, r.out)
                      EXCEPT !.branch = r.branch, !.drawn = r.drawn]
        /\ UNCHANGED <<model, plotter>>

Call_plot_scalar_field(section_name, cell_number, sn, direction, block) ==
    LET r == Plot2D_plot_scalar_field(model, plotter, ax, section_name, cell_number, sn,
                                      direction, block)
    IN  /\ Len(ax.layers) < MaxLayers
        /\ ax' = r.ax
        /\ last' = [Call("plot_scalar_field", section_name, cell_number, direction, block,
                         sn, r.out)
                      EXCEPT !.branch = r.branch, !.drawn = r.drawn]
        /\ UNCHANGED <<model, plotter>>

Call_plot_data(section_name, cell_number, direction) ==
    LET r == Plot2D_plot_data(model, plotter, ax, section_name, cell_number, direction)
    IN  /\ Len(ax.layers) + 2 <= MaxLayers
        /\ ax' = r.ax
        /\ last' = [Call("plot_data", section_name, cell_number, direction, None, 0, r.out)
                      EXCEPT !.branch = r.branch, !.drawn = r.drawn]
        /\ UNCHANGED <<model, plotter>>

\* calls with a section name leave the direction at its default
NextPaint ==
    \/ \E s \in SectionArgs, c \in {None, Some(1)}, b \in {None, Some(24)} :
          Call_plot_lith(s, c, "y", b)
    \/ \E c \in FlowCells, d \in FlowDirections, b \in Blocks :
          Call_plot_lith(None, c, d, b)
    \/ \E s \in SectionArgs, c \in {None, Some(1)}, b \in {None, Some(24)}, sn \in FieldNumbers :
          Call_plot_scalar_field(s, c, sn, "y", b)
    \/ \E c \in FlowCells, d \in FlowDirections, b \in Blocks, sn \in FieldNumbers :
          Call_plot_scalar_field(None, c, sn, d, b)
    \/ \E s \in SectionArgs \cup {None}, c \in {None, Some(1)} :
          Call_plot_data(s, c, "y")

SpecPaint == InitPaint /\ [][NextPaint]_vars

\* C4 as claimed: every plot_lith call with section_name and cell_number both
\* None raises the no-selector AttributeError and does not reach imshow.
C4_NoSelector ==
    (last.op = "plot_lith" /\ last.section_name = None /\ last.cell_number = None) =>
        /\ last.out.exc = "AttributeError" /\ last.out.at = 224
        /\ last.drawn = <<>>

\* C4 as amended: every plot_lith call with section_name, cell_number and
\* block all None raises the no-selector AttributeError (line 224) and does
\* not reach imshow; with a block the call takes the cell/block branch.
C4_NoSelectorNoBlock ==
    (last.op = "plot_lith" /\ last.section_name = None /\ last.cell_number = None) =>
        /\ last.block = None =>
              /\ last.out.exc = "AttributeError" /\ last.out.at = 224
              /\ last.drawn = <<>>
        /\ last.block # None => last.branch = "cell" /\ last.out.at # 224

\* no selector and no block, on a surface that holds a layer already
C4_Witness ==
    /\ last.op = "plot_lith"
    /\ last.section_name = None /\ last.cell_number = None /\ last.block = None
    /\ last.out.at = 224
    /\ ax.layers # <<>>

\* the source plot_scalar_field reads where plot_lith reads src
ScalarSource(src) ==
    CASE src = "sections" -> "sections_scalfield"
      [] src = "lith_block" -> "scalar_field_matrix"
      [] src = "block" -> "block"
      [] OTHER -> "none"

\* plot_lith with the arguments of the last call, on the same model
LithOfLast ==
    Plot2D_plot_lith(model, plotter, ax, last.section_name, last.cell_number,
                     last.direction, last.block)

\* the two calls choose the same branch, reach their drawing call alike, with
\* an image of the same shape from the corresponding source, or fail before it
\* with the same exception
MirrorsToDraw(lith) ==
    /\ last.branch = lith.branch
    /\ Len(last.drawn) = Len(lith.drawn)
    /\ lith.drawn = <<>> => last.out.exc = lith.out.exc
    /\ lith.drawn # <<>> =>
          /\ last.drawn[1].src = ScalarSource(lith.drawn[1].src)
          /\ last.drawn[1].shape = lith.drawn[1].shape

\* C9 as claimed: for every section_name, cell_number, block and model state
\* plot_scalar_field chooses the branch plot_lith chooses, and both fail with
\* the same condition or both draw one layer from the corresponding source.
C9_Mirrors ==
    last.op = "plot_scalar_field" =>
        /\ MirrorsToDraw(LithOfLast)
        /\ last.out.exc = LithOfLast.out.exc

\* the model has the scalar field the call asks for, and the lithology block
FieldSolved == At0(model.scalar_field_matrix, last.n) # None /\ model.lith_block # 0

\* C9 as amended: plot_scalar_field takes the section branch for every
\* section_name, "topography" too, and makes no assertion; up to the drawing
\* call it mirrors plot_lith when section_name is None (cell/block slice or no
\* selector, with a block supplied or the model's blocks solved) and for the
\* name of a defined section with the sections solved.
C9_MirrorsInPart ==
    last.op = "plot_scalar_field" =>
        /\ last.section_name # None => last.branch = "section" /\ last.out.exc # "AssertionError"
        /\ (last.section_name = None /\ (last.block # None \/ FieldSolved)) =>
              MirrorsToDraw(LithOfLast)
        /\ (/\ Where(model, last.section_name) # {}
            /\ model.sections_solved
            /\ At0(model.scalar_field_matrix, last.n) # None) =>
              MirrorsToDraw(LithOfLast) /\ last.out.exc = "none"

\* a block alone selects the slice and reaches the contour call
C9_Witness ==
    /\ last.op = "plot_scalar_field"
    /\ last.section_name = None /\ last.cell_number = None /\ last.block = Some(24)
    /\ last.branch = "cell"
    /\ Len(last.drawn) = 1

\* C10: every plot_data call with the name of a section, or with none (a cell
\* index only), draws the scatter and then the quiver and returns a value; the
\* X coordinates drawn are projected distances with a section name and the
\* table's own without.
C10_DataDrawnAndReturned ==
    (last.op = "plot_data"
        /\ (last.section_name = None \/ Where(model, last.section_name) # {})) =>
        /\ Len(last.drawn) = 2
        /\ last.drawn[1].kind = "scatter" /\ last.drawn[2].kind = "quiver"
        /\ \A i \in 1..Len(model.points) :
              last.drawn[1].x[i].t = (IF last.section_name = None THEN "raw" ELSE "norm")
        /\ last.out.exc = "none"


-----------------------------------------------------------------------------
(* Constructing the plotter: the inputs, and the calls that follow *)

\* the surfaces table of the model: one color per surface
ColorTables == {[i \in 1..n |-> "#015482"] : n \in 1..MaxSurf}

\* no color map, a listed one of up to one color more than the model has
\* surfaces, or one that is not listed
CmapArgs == {None, Some(Segmented)} \cup {Some(Listed(k)) : k \in 1..(MaxSurf + 1)}

\* no normalization, or one over [0, 1]
NormArgs == {None, Some(Normalize(0, 2))}

InitColor ==
    \E colors \in ColorTables, cmap \in CmapArgs, norm \in NormArgs :
        /\ model = [BaseModel EXCEPT !.colors = colors]
        /\ Plot2D_init(model, cmap, norm).out.exc = "none"
        /\ plotter = Plot2D_init(model, cmap, norm).self
        /\ ax = FreshAx
        /\ last = [NoCall EXCEPT !.cmap = cmap, !.norm = norm]

NextColor ==
    \/ \E made \in BOOLEAN : Call_create_figure(made)
    \/ \E s \in {None, Str("s_x")}, c \in {None, Some(1)}, g \in BOOLEAN :
          Call_set_section(s, c, "y", g, 6)
    \/ \E s \in {None, Str("s_x")}, c \in {None, Some(1)} : Call_plot_lith(s, c, "y", None)
    \/ \E s \in {None, Str("s_x")}, c \in {None, Some(1)} :
          Call_plot_scalar_field(s, c, 0, "y", None)
    \/ \E s \in {None, Str("s_x")} : Call_plot_data(s, Some(1), "y")

SpecColor == InitColor /\ [][NextColor]_vars

\* C8 as claimed: after construction with any color map and normalization,
\* supplied or omitted, the palette has as many colors as the model has
\* surfaces and the normalization is [0.5, n + 0.5], and no later call changes
\* them.
C8_PaletteOfSurfaces ==
    /\ plotter.cmap.n = Len(model.colors)
    /\ plotter.norm = Normalize(1, 2 * Len(model.colors) + 1)

\* the color mapping of the constructor's arguments
ColorsOf(cmap, norm) ==
    /\ cmap = None => plotter.cmap = Listed(Len(model.colors))
    /\ cmap # None => plotter.cmap = cmap[1]
    /\ norm = None => plotter.norm = Normalize(1, 2 * plotter.cmap.n + 1)
    /\ norm # None => plotter.norm = norm[1]

\* C8 as amended: an omitted color map becomes the listed palette of the
\* model's n surfaces and a supplied one is kept as it is; an omitted
\* normalization becomes [0.5, palette length + 0.5] (so [0.5, n + 0.5] when
\* the color map is omitted too) and a supplied one is kept as it is; no
\* later call changes the palette or the normalization.
C8_PaletteOfArguments ==
    /\ [](last.op = "__init__" => ColorsOf(last.cmap, last.norm))
    /\ [][plotter'.cmap = plotter.cmap /\ plotter'.norm = plotter.norm]_vars

\* a supplied palette longer than the surfaces table, still there after a
\* lithology image was drawn with it
C8_Witness ==
    /\ plotter.cmap.n > Len(model.colors)
    /\ plotter.norm = Normalize(1, 2 * plotter.cmap.n + 1)
    /\ last.op = "plot_lith"
    /\ last.out.exc = "none"

=============================================================================
